---- MODULE Spec2Model ----
(***************************************************************************)
(* AzureAccount (packages/azure/src/application/AzureAccount.ts): the      *)
(* facade that lists the subscriptions of an Azure identity and fans the   *)
(* per-subscription consumption / advisor queries out, sequentially, in    *)
(* batches or all at once.                                                 *)
(*                                                                         *)
(* One step of the model is one synchronous segment of the JavaScript      *)
(* code (from one await to the next) or one answer of an upstream API.     *)
(***************************************************************************)
EXTENDS Integers, Sequences, FiniteSets, TLC

(* ------------------------------ bounds -------------------------------- *)
\* the most subscriptions the upstream listing returns
MaxSubs == 3
\* the largest AZURE.SUBSCRIPTION_CHUNKS tried (0 stands for "unset")
MaxChunks == 2
\* the most rows one subscription's query returns
MaxRows == 2
\* how many credentials AzureCredentialsProvider.create() hands to one facade
MaxInits == 2
\* the longest request list handed to R.splitEvery in SpecSplit
MaxSplitLen == 5

(* ------------------------------ inputs -------------------------------- *)
SubscriptionIds == 1..MaxSubs

\* e.message of the errors the upstream collaborators throw
Reasons == { <<"ETIMEDOUT">>, <<"invalid", "client", "secret">> }

\* what subscriptions.list() can yield: the subscriptions of a tenant, in the
\* upstream's order (which is not the order of the ids)
Ascending(n) == [i \in 1..n |-> i]
Descending(n) == [i \in 1..n |-> MaxSubs + 1 - i]
UpstreamLists == { Ascending(n) : n \in 0..MaxSubs } \cup { Descending(n) : n \in 0..MaxSubs }

\* the request lists R.splitEvery is tried on in SpecSplit: every list of
\* distinct requests up to MaxSplitLen long
SplitLists ==
  UNION { { l \in [1..k -> 1..MaxSplitLen] : \A i, j \in 1..k : i # j => l[i] # l[j] } :
          k \in 0..MaxSplitLen }

\* the rows the query for subscription s returns when it succeeds: none for
\* some subscriptions, several for others
RowCount(s) == s % (MaxRows + 1)
Rows(s) == [k \in 1..RowCount(s) |-> 10 * s + k]

\* the lookup tables handed to the offline helper (LookupTableInput[]): each
\* row names a usage type
InputData == { <<>>, <<"compute">>, <<"storage", "compute">> }

\* an upstream answer to one per-subscription query
NoResponse == [kind |-> "none", rows |-> <<>>, reason |-> <<>>]
Success(rows) == [kind |-> "ok", rows |-> rows, reason |-> <<>>]
Failure(reason) == [kind |-> "error", rows |-> <<>>, reason |-> reason]
Responses(s) == { Success(Rows(s)) } \cup { Failure(r) : r \in Reasons }

(* ------------------------------- state -------------------------------- *)
VARIABLES
  credentials,        \* this.credentials: 0 = undefined, else the credential's identity
  subscriptionClient, \* this.subscriptionClient: 0 = undefined, else the credential it holds
  initPc,             \* initializeAccount: "idle", "awaitCreate", "resolved", "rejected"
  initError,          \* the message of the error initializeAccount rejected with
  initCause,          \* the e.message of the failure caught inside initializeAccount
  op,                 \* the facade call in progress: "none", "subscriptions", "advisor", "consumption"
  pc,                 \* its position: "idle", "listing", "awaitSeq", "awaitBatch", "awaitAll", "done", "failed"
                      \* ("chunked" in SpecSplit: the batches are made, nothing is started)
  chunkByDay,         \* AZURE.CONSUMPTION_CHUNKS_DAYS as the call read it (FALSE until read)
  subscriptionChunks, \* AZURE.SUBSCRIPTION_CHUNKS as the call read it, 0 = unset (0 until read)
  upstream,           \* what the iterator of subscriptions.list() is going to yield
  listError,          \* the error the iterator of subscriptions.list() threw, if it did
  subscriptions,      \* the local array getSubscriptions fills
  chunkedRequests,    \* the batches of requests (indices into subscriptions)
  cursor,             \* the index of the request / batch the for loop is at
  status,             \* per request: "pending", "inflight", "resolved"
  response,           \* per request: what the upstream answered
  value,              \* per request: what the request's promise resolved with
  completionOrder,    \* the requests in the order they resolved
  issueLog,           \* the requests in the order their upstream query was sent
  estimationResults,  \* the local array the for loops push to
  log,                \* what this.logger recorded during the call
  ret,                \* the value the call's promise resolved with
  err,                \* the error the call's promise rejected with
  listCalls,          \* how often the call invoked subscriptions.list()
  offlineSeen         \* per input of the offline helper: the outputs it has returned

initVars == <<credentials, subscriptionClient, initPc, initError, initCause>>
confVars == <<chunkByDay, subscriptionChunks>>
taskVars == <<status, response, value, completionOrder, issueLog>>
callVars == <<op, pc, upstream, listError, subscriptions, chunkedRequests, cursor, status,
              response, value, completionOrder, issueLog, estimationResults,
              log, ret, err>>
sideVars == <<listCalls, offlineSeen>>
vars == <<initVars, confVars, callVars, sideVars>>

NoError == [name |-> "none", message |-> <<>>]

Init ==
  /\ credentials = 0
  /\ subscriptionClient = 0
  /\ initPc = "idle"
  /\ initError = <<>>
  /\ initCause = <<>>
  /\ op = "none"
  /\ pc = "idle"
  /\ chunkByDay = FALSE
  /\ subscriptionChunks = 0
  /\ upstream = <<>>
  /\ listError = NoError
  /\ subscriptions = <<>>
  /\ chunkedRequests = <<>>
  /\ cursor = 0
  /\ status = [s \in SubscriptionIds |-> "pending"]
  /\ response = [s \in SubscriptionIds |-> NoResponse]
  /\ value = [s \in SubscriptionIds |-> <<>>]
  /\ completionOrder = <<>>
  /\ issueLog = <<>>
  /\ estimationResults = <<>>
  /\ log = <<>>
  /\ ret = <<>>
  /\ err = NoError
  /\ listCalls = 0
  /\ offlineSeen = [input \in InputData |-> {}]

(* --------------------------- pure helpers ----------------------------- *)
Min(a, b) == IF a < b THEN a ELSE b

InSeq(x, seq) == \E i \in 1..Len(seq) : seq[i] = x

\* Array.prototype.flat(): one level
RECURSIVE Flat(_)
Flat(xss) == IF xss = <<>> THEN <<>> ELSE Head(xss) \o Flat(Tail(xss))

\* (variant) one level is removed, as .flat() does for the sequential loop
RFlattenOneLevel(xsss) == Flat(xsss)

\* R.flatten: every level; the rows are objects, so estimationResults
\* (batches of requests of rows) has two levels to remove
RFlatten(xsss) == Flat(Flat(xsss))

\* Array.prototype.slice(from, to) on 0-based indices
Slice(list, from, to) == SubSeq(list, from + 1, Min(to, Len(list)))

\* R.splitEvery(n, list): while (idx < list.length) result.push(slice(idx, idx += n, list))
RECURSIVE SplitFrom(_, _, _)
SplitFrom(n, list, idx) ==
  IF idx < Len(list)
  THEN <<Slice(list, idx, idx + n)>> \o SplitFrom(n, list, idx + n)
  ELSE <<>>

\* (variant) only the full slices are kept
RECURSIVE SplitFullFrom(_, _, _)
SplitFullFrom(n, list, idx) ==
  IF idx + n <= Len(list)
  THEN <<Slice(list, idx, idx + n)>> \o SplitFullFrom(n, list, idx + n)
  ELSE <<>>

SplitEveryFullOnly(n, list) == SplitFullFrom(n, list, 0)

SplitEvery(n, list) == SplitFrom(n, list, 0)

\* (variant) an unset size falls back to one request per batch
ChunkRequestsOrOne(chunks, requests) ==
  SplitEvery(IF chunks # 0 THEN chunks ELSE 1, requests)

\* AZURE.SUBSCRIPTION_CHUNKS ? R.splitEvery(AZURE.SUBSCRIPTION_CHUNKS, requests) : [requests]
ChunkRequests(chunks, requests) ==
  IF chunks # 0 THEN SplitEvery(chunks, requests) ELSE <<requests>>

\* createSubscriptionRequests: one deferred request per subscription, in list
\* order; a request is named by the subscription its closure captured
CreateSubscriptionRequests(subs) == [i \in 1..Len(subs) |-> subs[i]]

\* (variant) the values collected as the requests complete
PromiseAllInCompletionOrder(requests) ==
  LET completed == SelectSeq(completionOrder, LAMBDA s : InSeq(s, requests))
  IN  [i \in 1..Len(completed) |-> value[completed[i]]]

\* Promise.all(requests.map(...)): the values in the order of the requests
PromiseAll(requests) == [i \in 1..Len(requests) |-> value[requests[i]]]

(* ------------------------------ logging ------------------------------- *)
LogEntry(level, text, s, reason, chunks) ==
  [level |-> level, text |-> text, subscription |-> s, reason |-> reason, chunks |-> chunks]

NoSubscriptionWarning ==
  LogEntry("warn", "No subscription returned for these Azure credentials", 0, <<>>, 0)
GettingDataInfo(s) == LogEntry("info", "Getting data for", s, <<>>, 0)
\* (variant) the warning names the subscription but not e.message
EstimateWarningWithoutReason(s, reason) ==
  LogEntry("warn", "Unable to get estimate data for Azure subscription", s, <<>>, 0)

EstimateWarning(s, reason) ==
  LogEntry("warn", "Unable to get estimate data for Azure subscription", s, reason, 0)
AdvisorWarning(s, reason) ==
  LogEntry("warn", "Unable to get Advisor recommendations data for Azure subscription", s, reason, 0)
FetchingDebug(chunks) == LogEntry("debug", "Fetching Azure consumption data with", 0, <<>>, chunks)

(* -------------------------- initializeAccount ------------------------- *)
\* (variant) the reason is left out of the message
InitFailedMessageWithoutReason(reason) == <<"Azure", "initializeAccount", "failed.">>

\* `Azure initializeAccount failed. Reason: ${e.message}`
InitFailedMessage(reason) == <<"Azure", "initializeAccount", "failed.", "Reason:">> \o reason

\* initializeAccount() is invoked, at any moment, and suspends on
\* AzureCredentialsProvider.create(); a credential is named by its rank among
\* the credentials create() handed out
InitializeAccount ==
  /\ initPc # "awaitCreate"
  /\ credentials < MaxInits
  /\ initPc' = "awaitCreate"
  /\ initError' = <<>>
  /\ initCause' = <<>>
  /\ UNCHANGED <<credentials, subscriptionClient, confVars, callVars, sideVars>>

\* create() resolves; new SubscriptionClient(this.credentials) returns or throws
CreateResolved ==
  /\ initPc = "awaitCreate"
  /\ credentials' = credentials + 1
  /\ \/ /\ subscriptionClient' = credentials'
        /\ initPc' = "resolved"
        /\ UNCHANGED <<initError, initCause>>
     \/ \E reason \in Reasons :
          /\ initCause' = reason
          /\ initError' = InitFailedMessage(reason)
          /\ initPc' = "rejected"
          /\ UNCHANGED subscriptionClient
  /\ UNCHANGED <<confVars, callVars, sideVars>>

\* create() rejects
CreateRejected ==
  /\ initPc = "awaitCreate"
  /\ \E reason \in Reasons :
       /\ initCause' = reason
       /\ initError' = InitFailedMessage(reason)
  /\ initPc' = "rejected"
  /\ UNCHANGED <<credentials, subscriptionClient, confVars, callVars, sideVars>>

(* --------------------------- getSubscriptions ------------------------- *)
TypeError == [name |-> "TypeError",
              message |-> <<"Cannot", "read", "properties", "of", "undefined">>]
UpstreamError(reason) == [name |-> "Error", message |-> reason]

\* (variant) a missing client is created on demand
ClientCreatedOnDemand == FALSE

\* this.subscriptionClient is undefined: reading .subscriptions of it throws
ClientMissing == subscriptionClient = 0

\* (variant) the subscriptions collected by the call before are kept and
\* used again without asking the upstream
ListSubscriptionsCached(previous) ==
  IF previous = <<>>
  THEN { [upstream |-> l, collected |-> <<>>, calls |-> 1] : l \in UpstreamLists }
  ELSE { [upstream |-> previous, collected |-> previous, calls |-> 0] }

\* const subscriptions = [] and one this.subscriptionClient.subscriptions
\* .list(): whatever the call before collected (`previous`), the call
\* starts from an empty array and iterates what the upstream answers now
ListSubscriptions(previous) ==
  { [upstream |-> l, collected |-> <<>>, calls |-> 1] : l \in UpstreamLists }

\* a facade call starts (one call at a time): the observations of the call
\* before it are dropped and this.subscriptionClient.subscriptions.list() is
\* evaluated
Begin(o) ==
  /\ pc \in {"idle", "done", "failed"}
  /\ op' = o
  /\ listError' = NoError
  /\ chunkedRequests' = <<>>
  /\ cursor' = 0
  /\ status' = [s \in SubscriptionIds |-> "pending"]
  /\ response' = [s \in SubscriptionIds |-> NoResponse]
  /\ value' = [s \in SubscriptionIds |-> <<>>]
  /\ completionOrder' = <<>>
  /\ issueLog' = <<>>
  /\ estimationResults' = <<>>
  /\ log' = <<>>
  /\ ret' = <<>>
  /\ IF ClientMissing
     THEN /\ pc' = "failed"
          /\ err' = TypeError
          /\ upstream' = <<>>
          /\ subscriptions' = <<>>
          /\ listCalls' = 0
     ELSE /\ pc' = "listing"
          /\ err' = NoError
          /\ \E listing \in ListSubscriptions(subscriptions) :
               /\ upstream' = listing.upstream
               /\ subscriptions' = listing.collected
               /\ listCalls' = listing.calls
  /\ chunkByDay' = FALSE
  /\ subscriptionChunks' = 0
  /\ UNCHANGED <<initVars, offlineSeen>>

CallGetSubscriptions == Begin("subscriptions")
CallGetDataFromAdvisorManagement == Begin("advisor")
CallGetDataFromConsumptionManagement == Begin("consumption")

\* for await (const subscription of ...list()) subscriptions.push(subscription)
ListNext ==
  /\ pc = "listing"
  /\ Len(subscriptions) < Len(upstream)
  /\ subscriptions' = Append(subscriptions, upstream[Len(subscriptions) + 1])
  /\ UNCHANGED <<sideVars, initVars, confVars, op, pc, upstream, listError, chunkedRequests,
                 cursor, taskVars, estimationResults, log, ret, err>>

\* (variant) the iterator's error is swallowed and the subscriptions read so
\* far are used
ListThrowsSwallowed ==
  /\ pc = "listing"
  /\ \E reason \in Reasons : listError' = UpstreamError(reason)
  /\ upstream' = subscriptions
  /\ UNCHANGED <<sideVars, initVars, confVars, op, pc, subscriptions, chunkedRequests,
                 cursor, taskVars, estimationResults, log, ret, err>>

\* (variant) a listing failure makes the facade drop its client
ListThrowsDroppingClient ==
  /\ pc = "listing"
  /\ \E reason \in Reasons :
       /\ listError' = UpstreamError(reason)
       /\ err' = UpstreamError(reason)
  /\ pc' = "failed"
  /\ subscriptionClient' = 0
  /\ UNCHANGED <<sideVars, credentials, initPc, initError, initCause, confVars,
                 op, upstream, subscriptions, chunkedRequests,
                 cursor, taskVars, estimationResults, log, ret>>

\* the iterator throws: nothing catches it, the call rejects
ListThrows ==
  /\ pc = "listing"
  /\ \E reason \in Reasons :
       /\ listError' = UpstreamError(reason)
       /\ err' = UpstreamError(reason)
  /\ pc' = "failed"
  /\ UNCHANGED <<sideVars, initVars, confVars, op, upstream, subscriptions, chunkedRequests,
                 cursor, taskVars, estimationResults, log, ret>>

\* the iterator is exhausted: what getSubscriptions logs before it returns
ListExhausted == pc = "listing" /\ Len(subscriptions) = Len(upstream)
\* (variant) an empty listing is not reported
GetSubscriptionsLogSilent(subs) == log

\* if (subscriptions.length === 0) this.logger.warn(...)
GetSubscriptionsLog(subs) ==
  IF Len(subs) = 0 THEN Append(log, NoSubscriptionWarning) ELSE log

GetSubscriptionsReturns ==
  /\ op = "subscriptions"
  /\ ListExhausted
  /\ log' = GetSubscriptionsLog(subscriptions)
  /\ ret' = subscriptions
  /\ pc' = "done"
  /\ UNCHANGED <<sideVars, initVars, confVars, op, upstream, listError, subscriptions, chunkedRequests,
                 cursor, taskVars, estimationResults, err>>


(* ------------------- getDataFromConsumptionManagement ------------------ *)
\* (variant) the subscriptions whose query failed earlier are queried again
\* together with `reqs`
StartRequestsWithRetry(reqs, logNow) ==
  LET failed == SelectSeq(issueLog, LAMBDA s : response[s].kind = "error")
  IN  /\ status' = [s \in SubscriptionIds |->
                      IF InSeq(s, failed \o reqs) THEN "inflight" ELSE status[s]]
      /\ issueLog' = issueLog \o failed \o reqs
      /\ log' = logNow \o [i \in 1..Len(reqs) |-> GettingDataInfo(reqs[i])]

\* the requests `reqs` are invoked, in order: each logs and sends its query
\* (createSubscriptionRequests, the closure up to its await)
StartRequests(reqs, logNow) ==
  /\ status' = [s \in SubscriptionIds |-> IF InSeq(s, reqs) THEN "inflight" ELSE status[s]]
  /\ issueLog' = issueLog \o reqs
  /\ log' = logNow \o [i \in 1..Len(reqs) |-> GettingDataInfo(reqs[i])]

\* (variant) a batch size, when set, is looked at before the day chunking
ChunkByDayUnlessBatched(chunkDays, chunks) == chunkDays /\ chunks = 0

\* if (AZURE.CONSUMPTION_CHUNKS_DAYS): tested first, SUBSCRIPTION_CHUNKS is
\* read only below the return of this branch
ChunkByDayFirst(chunkDays, chunks) == chunkDays

\* getSubscriptions has returned: the requests are created and the first
\* request (chunkByDay) or the first batch is started
GetDataFromConsumptionManagementResumes ==
  /\ op = "consumption"
  /\ ListExhausted
  /\ chunkByDay' \in BOOLEAN
  /\ subscriptionChunks' \in 0..MaxChunks
  /\ LET requests == CreateSubscriptionRequests(subscriptions)
         listed == GetSubscriptionsLog(subscriptions)
     IN  IF ChunkByDayFirst(chunkByDay', subscriptionChunks')
         THEN /\ chunkedRequests' = <<>>
              /\ estimationResults' = <<>>
              /\ IF requests = <<>>
                 THEN /\ ret' = Flat(<<>>)
                      /\ pc' = "done"
                      /\ cursor' = 0
                      /\ log' = listed
                      /\ UNCHANGED <<status, issueLog>>
                 ELSE /\ StartRequests(<<requests[1]>>, listed)
                      /\ cursor' = 1
                      /\ pc' = "awaitSeq"
                      /\ UNCHANGED ret
         ELSE LET chunked == ChunkRequests(subscriptionChunks', requests)
                  debugged == Append(listed, FetchingDebug(subscriptionChunks'))
              IN  /\ chunkedRequests' = chunked
                  /\ estimationResults' = <<>>
                  /\ IF chunked = <<>>
                     THEN /\ ret' = RFlatten(<<>>)
                          /\ pc' = "done"
                          /\ cursor' = 0
                          /\ log' = debugged
                          /\ UNCHANGED <<status, issueLog>>
                     ELSE /\ StartRequests(chunked[1], debugged)
                          /\ cursor' = 1
                          /\ pc' = "awaitBatch"
                          /\ UNCHANGED ret
  /\ UNCHANGED <<sideVars, initVars, op, upstream, listError, subscriptions, response, value,
                 completionOrder, err>>

\* (variant) a request without the try / catch: its failure rejects
\* the awaited promise and with it the call
RequestRejects(s, resp) ==
  IF resp.kind = "ok"
  THEN /\ value' = [value EXCEPT ![s] = resp.rows]
       /\ UNCHANGED <<log, pc, err>>
  ELSE /\ pc' = "failed"
       /\ err' = UpstreamError(resp.reason)
       /\ UNCHANGED <<value, log>>

\* the request of subscription s after its await: the try returns the rows,
\* the catch logs a warning and returns []
RequestSettles(s, resp) ==
  /\ value' = [value EXCEPT ![s] = IF resp.kind = "ok" THEN resp.rows ELSE <<>>]
  /\ log' = IF resp.kind = "ok" THEN log
            ELSE Append(log, EstimateWarning(s, resp.reason))
  /\ UNCHANGED <<pc, err>>

\* the upstream answers the consumption query of subscription s
RequestResolves(s) ==
  /\ op = "consumption"
  /\ pc \in {"awaitSeq", "awaitBatch"}
  /\ status[s] = "inflight"
  /\ \E resp \in Responses(s) :
       /\ response' = [response EXCEPT ![s] = resp]
       /\ RequestSettles(s, resp)
  /\ status' = [status EXCEPT ![s] = "resolved"]
  /\ completionOrder' = Append(completionOrder, s)
  /\ UNCHANGED <<sideVars, initVars, confVars, op, upstream, listError, subscriptions, chunkedRequests,
                 cursor, issueLog, estimationResults, ret>>

\* for (const request of requests) estimationResults.push(await request())
\* (variant) request() is pushed without being awaited
RequestNotAwaited == TRUE

\* await request(): the request at the cursor has resolved
RequestAwaited == status[CreateSubscriptionRequests(subscriptions)[cursor]] = "resolved"

SequentialNext ==
  /\ pc = "awaitSeq"
  /\ RequestAwaited
  /\ LET requests == CreateSubscriptionRequests(subscriptions)
     IN  /\ estimationResults' = Append(estimationResults, value[requests[cursor]])
         /\ IF cursor < Len(requests)
            THEN /\ StartRequests(<<requests[cursor + 1]>>, log)
                 /\ cursor' = cursor + 1
                 /\ UNCHANGED <<pc, ret>>
            ELSE /\ ret' = Flat(estimationResults')
                 /\ pc' = "done"
                 /\ UNCHANGED <<cursor, status, issueLog, log>>
  /\ UNCHANGED <<sideVars, initVars, confVars, op, upstream, listError, subscriptions, chunkedRequests,
                 response, value, completionOrder, err>>

\* (variant) the barrier waits for the requests of every batch, also of the
\* batches that are started only after it
EveryBatchResolved == \A i \in 1..Len(subscriptions) :
                        status[subscriptions[i]] = "resolved"

\* (variant) Promise.race: the batch is left when its first request resolves
BatchRaced == \E i \in 1..Len(chunkedRequests[cursor]) :
                status[chunkedRequests[cursor][i]] = "resolved"

\* await Promise.all(...) of the batch at the cursor has every value
BatchResolved == \A i \in 1..Len(chunkedRequests[cursor]) :
                   status[chunkedRequests[cursor][i]] = "resolved"

\* for (const requests of chunkedRequests)
\*   estimationResults.push(await Promise.all(requests.map(...)))
BatchNext ==
  /\ pc = "awaitBatch"
  /\ BatchResolved
  /\ estimationResults' = Append(estimationResults, PromiseAll(chunkedRequests[cursor]))
  /\ IF cursor < Len(chunkedRequests)
     THEN /\ StartRequests(chunkedRequests[cursor + 1], log)
          /\ cursor' = cursor + 1
          /\ UNCHANGED <<pc, ret>>
     ELSE /\ ret' = RFlatten(estimationResults')
          /\ pc' = "done"
          /\ UNCHANGED <<cursor, status, issueLog, log>>
  /\ UNCHANGED <<sideVars, initVars, confVars, op, upstream, listError, subscriptions, chunkedRequests,
                 response, value, completionOrder, err>>

(* --------------------- getDataFromAdvisorManagement -------------------- *)
\* (variant) the advisor callbacks follow the strategy of the consumption
\* call: only the first request or the first batch is started at once
AdvisorCallbacksByStrategy(chunkDays, chunks, subs) ==
  IF chunkDays THEN SubSeq(subs, 1, Min(1, Len(subs)))
  ELSE IF chunks > 0 THEN SubSeq(subs, 1, Min(chunks, Len(subs)))
  ELSE subs

\* subscriptions.map(async (subscription) => ...): a callback is started for
\* every listed subscription; the method never calls configLoader(), so the
\* configuration in force (chunkDays, chunks) has no part in it
AdvisorCallbacks(chunkDays, chunks, subs) == subs

\* getSubscriptions has returned: subscriptions.map(async ...) sends every
\* advisor query, under whatever configuration is in force
GetDataFromAdvisorManagementResumes ==
  /\ op = "advisor"
  /\ ListExhausted
  /\ log' = GetSubscriptionsLog(subscriptions)
  /\ LET started == AdvisorCallbacks(chunkByDay, subscriptionChunks, subscriptions)
     IN  /\ status' = [s \in SubscriptionIds |->
                         IF InSeq(s, started) THEN "inflight" ELSE status[s]]
         /\ issueLog' = issueLog \o started
  /\ pc' = "awaitAll"
  /\ UNCHANGED <<sideVars, initVars, confVars, op, upstream, listError, subscriptions, chunkedRequests,
                 cursor, response, value, completionOrder, estimationResults, ret, err>>

\* (variant) a callback without the try / catch: its failure rejects
\* Promise.all and with it the call
AdvisorRejects(s, resp) ==
  IF resp.kind = "ok"
  THEN /\ value' = [value EXCEPT ![s] = resp.rows]
       /\ UNCHANGED <<log, pc, err>>
  ELSE /\ pc' = "failed"
       /\ err' = UpstreamError(resp.reason)
       /\ UNCHANGED <<value, log>>

\* the callback of subscription s after its await: the try returns the
\* recommendations, the catch logs a warning and returns []
AdvisorSettles(s, resp) ==
  /\ value' = [value EXCEPT ![s] = IF resp.kind = "ok" THEN resp.rows ELSE <<>>]
  /\ log' = IF resp.kind = "ok" THEN log
            ELSE Append(log, AdvisorWarning(s, resp.reason))
  /\ UNCHANGED <<pc, err>>

\* the upstream answers the advisor query of subscription s
AdvisorResolves(s) ==
  /\ op = "advisor"
  /\ pc = "awaitAll"
  /\ status[s] = "inflight"
  /\ \E resp \in Responses(s) :
       /\ response' = [response EXCEPT ![s] = resp]
       /\ AdvisorSettles(s, resp)
  /\ status' = [status EXCEPT ![s] = "resolved"]
  /\ completionOrder' = Append(completionOrder, s)
  /\ UNCHANGED <<sideVars, initVars, confVars, op, upstream, listError, subscriptions, chunkedRequests,
                 cursor, issueLog, estimationResults, ret>>

\* await Promise.all(...) of the advisor callbacks has every value
AllResolved == \A i \in 1..Len(subscriptions) : status[subscriptions[i]] = "resolved"

\* return recommendations.flat()
GetDataFromAdvisorManagementReturns ==
  /\ pc = "awaitAll"
  /\ AllResolved
  /\ ret' = Flat(PromiseAll(subscriptions))
  /\ pc' = "done"
  /\ UNCHANGED <<sideVars, initVars, confVars, op, upstream, listError, subscriptions, chunkedRequests,
                 cursor, taskVars, estimationResults, log, err>>

(* -------------------------- the offline helper ------------------------- *)
\* consumptionManagementService.getEstimatesFromInputData(inputData): the
\* estimators applied to the rows of the lookup table, one estimate a row
GetEstimatesFromInputData(inputData) ==
  [i \in 1..Len(inputData) |-> [usageType |-> inputData[i], estimatedBy |-> "table"]]

\* (variant) the helper asks the upstream API through the facade's credential
GetDataFromConsumptionManagementInputDataViaClient(inputData) ==
  /\ subscriptionClient # 0
  /\ offlineSeen' =
       [offlineSeen EXCEPT ![inputData] =
          @ \cup { GetEstimatesFromInputData(inputData)
                     \o << [usageType |-> "api", estimatedBy |-> credentials] >> }]
  /\ issueLog' = Append(issueLog, 0)
  /\ UNCHANGED <<initVars, confVars, op, pc, upstream, listError, subscriptions,
                 chunkedRequests, cursor, status, response, value,
                 completionOrder, estimationResults, log, ret, err, listCalls>>

\* static getDataFromConsumptionManagementInputData: a service built from
\* estimators alone (no client), run over the table; no await, no this
GetDataFromConsumptionManagementInputData(inputData) ==
  /\ offlineSeen' =
       [offlineSeen EXCEPT ![inputData] =
          @ \cup { GetEstimatesFromInputData(inputData) }]
  /\ UNCHANGED <<initVars, confVars, callVars, listCalls>>

(* --------------------------- specification ---------------------------- *)
Next ==
  \/ InitializeAccount
  \/ CreateResolved
  \/ CreateRejected
  \/ CallGetSubscriptions
  \/ CallGetDataFromAdvisorManagement
  \/ CallGetDataFromConsumptionManagement
  \/ ListNext
  \/ ListThrows
  \/ GetSubscriptionsReturns
  \/ GetDataFromConsumptionManagementResumes
  \/ \E s \in SubscriptionIds : RequestResolves(s)
  \/ SequentialNext
  \/ BatchNext
  \/ GetDataFromAdvisorManagementResumes
  \/ \E s \in SubscriptionIds : AdvisorResolves(s)
  \/ GetDataFromAdvisorManagementReturns

Spec == Init /\ [][Next]_vars

(* ------------------- calls on an initialised facade ------------------- *)
\* a facade whose initializeAccount has succeeded, before its first call
InitLive ==
  /\ credentials = 1
  /\ subscriptionClient = 1
  /\ initPc = "resolved"
  /\ initError = <<>>
  /\ initCause = <<>>
  /\ op = "none"
  /\ pc = "idle"
  /\ chunkByDay = FALSE
  /\ subscriptionChunks = 0
  /\ upstream = <<>>
  /\ listError = NoError
  /\ subscriptions = <<>>
  /\ chunkedRequests = <<>>
  /\ cursor = 0
  /\ status = [s \in SubscriptionIds |-> "pending"]
  /\ response = [s \in SubscriptionIds |-> NoResponse]
  /\ value = [s \in SubscriptionIds |-> <<>>]
  /\ completionOrder = <<>>
  /\ issueLog = <<>>
  /\ estimationResults = <<>>
  /\ log = <<>>
  /\ ret = <<>>
  /\ err = NoError
  /\ listCalls = 0
  /\ offlineSeen = [input \in InputData |-> {}]

(* ------ advisor calls under a changing configuration (SpecAdvisor) ----- *)
\* what configLoader().AZURE holds is set from outside the facade: during an
\* advisor call CONSUMPTION_CHUNKS_DAYS and SUBSCRIPTION_CHUNKS may hold, and
\* come to hold, any value
ConfigurationChanges ==
  /\ op = "advisor"
  /\ chunkByDay' \in BOOLEAN
  /\ subscriptionChunks' \in 0..MaxChunks
  /\ UNCHANGED <<initVars, callVars, sideVars>>

\* getDataFromAdvisorManagement called again and again on an initialised
\* facade
NextAdvisor ==
  \/ CallGetDataFromAdvisorManagement
  \/ ConfigurationChanges
  \/ ListNext
  \/ ListThrows
  \/ GetDataFromAdvisorManagementResumes
  \/ \E s \in SubscriptionIds : AdvisorResolves(s)
  \/ GetDataFromAdvisorManagementReturns

SpecAdvisor == InitLive /\ [][NextAdvisor]_vars

(* ------------- consumption calls that are answered (SpecLive) ---------- *)
\* getDataFromConsumptionManagement called again and again
NextLive ==
  \/ CallGetDataFromConsumptionManagement
  \/ ListNext
  \/ ListThrows
  \/ GetDataFromConsumptionManagementResumes
  \/ \E s \in SubscriptionIds : RequestResolves(s)
  \/ SequentialNext
  \/ BatchNext

\* the upstream answers every listing page and every query it was sent, and
\* the event loop runs every continuation that is ready: the awaits of lines
\* 83, 98 and 114-116 and of the closures
Fairness ==
  /\ WF_vars(ListNext)
  /\ WF_vars(GetDataFromConsumptionManagementResumes)
  /\ \A s \in SubscriptionIds : WF_vars(RequestResolves(s))
  /\ WF_vars(SequentialNext)
  /\ WF_vars(BatchNext)

SpecLive == InitLive /\ [][NextLive]_vars /\ Fairness

\* callers of the static offline helper beside a facade that is being
\* initialised and is listing its subscriptions
NextOffline ==
  \/ InitializeAccount
  \/ CreateResolved
  \/ CreateRejected
  \/ CallGetSubscriptions
  \/ ListNext
  \/ ListThrows
  \/ GetSubscriptionsReturns
  \/ \E inputData \in InputData :
       GetDataFromConsumptionManagementInputData(inputData)

SpecOffline == Init /\ [][NextOffline]_vars

(* ----------------- the batching on its own (SpecSplit) ----------------- *)
\* a call of getDataFromConsumptionManagement on an initialised facade that
\* has listed its subscriptions, read its configuration (chunkByDay off) and
\* created its requests: the state before line 104
InitSplit ==
  /\ credentials = 1
  /\ subscriptionClient = 1
  /\ initPc = "resolved"
  /\ initError = <<>>
  /\ initCause = <<>>
  /\ op = "consumption"
  /\ pc = "listing"
  /\ chunkByDay = FALSE
  /\ subscriptionChunks \in 0..MaxSplitLen
  /\ upstream \in SplitLists
  /\ listError = NoError
  /\ subscriptions = upstream
  /\ chunkedRequests = <<>>
  /\ cursor = 0
  /\ status = [s \in SubscriptionIds |-> "pending"]
  /\ response = [s \in SubscriptionIds |-> NoResponse]
  /\ value = [s \in SubscriptionIds |-> <<>>]
  /\ completionOrder = <<>>
  /\ issueLog = <<>>
  /\ estimationResults = <<>>
  /\ log = <<>>
  /\ ret = <<>>
  /\ err = NoError
  /\ listCalls = 1
  /\ offlineSeen = [input \in InputData |-> {}]

\* const chunkedRequests = AZURE.SUBSCRIPTION_CHUNKS ? R.splitEvery(...) : [requests]
SplitRequests ==
  /\ op = "consumption"
  /\ pc = "listing"
  /\ ~chunkByDay
  /\ chunkedRequests' = ChunkRequests(subscriptionChunks, CreateSubscriptionRequests(subscriptions))
  /\ pc' = "chunked"
  /\ UNCHANGED <<sideVars, initVars, confVars, op, upstream, listError, subscriptions, cursor,
                 taskVars, estimationResults, log, ret, err>>

SpecSplit == InitSplit /\ [][SplitRequests]_vars

(* ============================== claims ================================ *)
Requests == CreateSubscriptionRequests(subscriptions)
InFlight == { s \in SubscriptionIds : status[s] = "inflight" }
\* what subscription s contributes: its rows, or nothing when its query failed
OwnResult(s) == IF response[s].kind = "ok" THEN Rows(s) ELSE <<>>
ConsumptionDone == op = "consumption" /\ pc = "done"

\* C1: when the listing is not empty and every consumption query succeeds,
\* getDataFromConsumptionManagement returns the rows of the subscriptions
\* concatenated in the order of the listing, under every strategy and
\* whatever the order in which the queries completed.
C1_ResultInListOrder ==
  (/\ ConsumptionDone
   /\ subscriptions # <<>>
   /\ \A i \in 1..Len(subscriptions) : response[subscriptions[i]].kind = "ok")
  => ret = Flat([i \in 1..Len(subscriptions) |-> Rows(subscriptions[i])])

\* a concurrent call whose queries completed out of list order
C1_Witness ==
  /\ ConsumptionDone
  /\ ~chunkByDay
  /\ Len(subscriptions) = MaxSubs
  /\ \A i \in 1..Len(subscriptions) : response[subscriptions[i]].kind = "ok"
  /\ completionOrder # subscriptions
  /\ Len(ret) > MaxRows

\* C2: whichever consumption queries fail, the call completes and returns the
\* rows of the successful subscriptions in list order with nothing for the
\* failed ones; every listed subscription was queried; once a query has been
\* sent the call never fails.
C2_FailuresAbsorbed ==
  op = "consumption" =>
    /\ pc = "done" =>
         /\ ret = Flat([i \in 1..Len(subscriptions) |-> OwnResult(subscriptions[i])])
         /\ issueLog = subscriptions
         /\ \A i \in 1..Len(subscriptions) : response[subscriptions[i]].kind # "none"
    /\ pc = "failed" => issueLog = <<>> /\ \A s \in SubscriptionIds : response[s].kind = "none"

\* [A, B, C] with A failing and a later sibling contributing its rows
C2_Witness ==
  /\ ConsumptionDone
  /\ \E i, j \in 1..Len(subscriptions) :
       /\ i < j
       /\ response[subscriptions[i]].kind = "error"
       /\ response[subscriptions[j]].kind = "ok"
       /\ Rows(subscriptions[j]) # <<>>
  /\ ret # <<>>

\* C3: with chunkByDay at most one consumption query is in flight, and the
\* query of a subscription is not sent before the queries of all earlier
\* subscriptions of the list have resolved.
C3_OneAtATime ==
  (op = "consumption" /\ chunkByDay) =>
    /\ Cardinality(InFlight) <= 1
    /\ \A i, j \in 1..Len(subscriptions) :
         (i < j /\ status[subscriptions[j]] # "pending")
           => status[subscriptions[i]] = "resolved"

\* the third query is in flight after the second one failed
C3_Witness ==
  /\ op = "consumption"
  /\ chunkByDay
  /\ Len(subscriptions) >= 3
  /\ status[subscriptions[3]] = "inflight"
  /\ response[subscriptions[2]].kind = "error"

IsPrefix(a, b) == Len(a) <= Len(b) /\ a = SubSeq(b, 1, Len(a))

\* C4: with chunkByDay off and a batch size set, no request of a batch is
\* started before every request of every earlier batch has resolved, and the
\* requests are started in list order without a gap, failures or not.
C4_BatchBarrier ==
  (op = "consumption" /\ ~chunkByDay /\ subscriptionChunks > 0) =>
    /\ \A k, m \in 1..Len(chunkedRequests) :
         (k < m /\ \E i \in 1..Len(chunkedRequests[m]) :
                     status[chunkedRequests[m][i]] # "pending")
           => \A j \in 1..Len(chunkedRequests[k]) :
                status[chunkedRequests[k][j]] = "resolved"
    /\ IsPrefix(issueLog, Requests)
    /\ pc = "done" => issueLog = Requests

\* the second batch is in flight after a request of the first batch failed
C4_Witness ==
  /\ op = "consumption"
  /\ ~chunkByDay
  /\ subscriptionChunks = 2
  /\ pc = "awaitBatch"
  /\ cursor = 2
  /\ InFlight # {}
  /\ \E i \in 1..Len(chunkedRequests[1]) : response[chunkedRequests[1][i]].kind = "error"

\* C5: with chunkByDay off and a batch size b > 0, the batches are consecutive
\* runs of the request list that cover it exactly once in order; every batch
\* but the last holds b requests, the last holds 1..b, and there are
\* ceil(n / b) batches.
C5_ConsecutiveBatches ==
  (/\ op = "consumption"
   /\ ~chunkByDay
   /\ subscriptionChunks > 0
   /\ pc \in {"chunked", "awaitBatch", "done"})
  => LET b == subscriptionChunks
         n == Len(Requests)
         c == chunkedRequests
     IN  /\ Flat(c) = Requests
         /\ \A k \in 1..Len(c) - 1 : Len(c[k]) = b
         /\ Len(c) > 0 => (1 <= Len(c[Len(c)]) /\ Len(c[Len(c)]) <= b)
         /\ Len(c) = (n + b - 1) \div b

\* five subscriptions in batches of two: sizes [2, 2, 1]
C5_Witness ==
  /\ pc = "chunked"
  /\ subscriptionChunks = 2
  /\ Len(subscriptions) = 5
  /\ [k \in 1..Len(chunkedRequests) |-> Len(chunkedRequests[k])] = <<2, 2, 1>>

\* C6: with chunkByDay off and no batch size, every request is started in the
\* step that starts the first one, before any answer: there is one batch, and
\* no state holds a request that still waits to be started.
C6_AllAtOnce ==
  (/\ op = "consumption"
   /\ ~chunkByDay
   /\ subscriptionChunks = 0
   /\ pc \in {"awaitBatch", "done"})
  => /\ Len(chunkedRequests) = 1
     /\ issueLog = Requests
     /\ \A i \in 1..Len(subscriptions) : status[subscriptions[i]] # "pending"

\* all the queries of the largest listing are in flight together
C6_Witness ==
  /\ op = "consumption"
  /\ ~chunkByDay
  /\ subscriptionChunks = 0
  /\ pc = "awaitBatch"
  /\ Len(subscriptions) = MaxSubs
  /\ Cardinality(InFlight) = MaxSubs

Logged(entry) == InSeq(entry, log)

\* C7: when the listing is empty, the advisor and the consumption call send
\* no query, log the no-subscription warning, raise no error and return the
\* empty sequence, under every configuration.
C7_EmptyListing ==
  (/\ op \in {"advisor", "consumption"}
   /\ pc \in {"awaitSeq", "awaitBatch", "awaitAll", "done"}
   /\ subscriptions = <<>>)
  => /\ Logged(NoSubscriptionWarning)
     /\ issueLog = <<>>
     /\ InFlight = {}
     /\ err = NoError
     /\ pc = "done" => ret = <<>>
     /\ pc # "awaitSeq"
     /\ pc = "awaitBatch" => (cursor = Len(chunkedRequests) /\ BatchResolved)

\* the consumption call returned [] for an empty listing, no batch size set
C7_Witness ==
  /\ ConsumptionDone
  /\ ~chunkByDay
  /\ subscriptionChunks = 0
  /\ upstream = <<>>
  /\ subscriptions = <<>>
  /\ ret = <<>>
  /\ Logged(NoSubscriptionWarning)

\* C8: whichever advisor queries fail and in whatever order they complete,
\* getDataFromAdvisorManagement completes and returns the recommendations of
\* the subscriptions in list order with nothing for the failed ones.
C8_AdvisorFailuresAbsorbed ==
  op = "advisor" =>
    /\ pc = "done" =>
         /\ ret = Flat([i \in 1..Len(subscriptions) |-> OwnResult(subscriptions[i])])
         /\ issueLog = subscriptions
         /\ \A i \in 1..Len(subscriptions) : response[subscriptions[i]].kind # "none"
    /\ pc = "failed" => issueLog = <<>> /\ \A s \in SubscriptionIds : response[s].kind = "none"

\* a failed advisor query, a later sibling's recommendations, out-of-order completion
C8_Witness ==
  /\ op = "advisor"
  /\ pc = "done"
  /\ completionOrder # subscriptions
  /\ \E i, j \in 1..Len(subscriptions) :
       /\ i < j
       /\ response[subscriptions[i]].kind = "error"
       /\ response[subscriptions[j]].kind = "ok"
       /\ Rows(subscriptions[j]) # <<>>
  /\ ret # <<>>

\* C9: when the iterator of the listing throws, the advisor / consumption call
\* fails with that error, returns nothing and sends no query; and a call that
\* failed did so because the listing threw (or the facade had no client),
\* never because a per-subscription query failed.
C9_ListingFailureIsFatal ==
  op \in {"advisor", "consumption"} =>
    /\ listError # NoError =>
         /\ pc = "failed"
         /\ err = listError
         /\ ret = <<>>
         /\ issueLog = <<>>
    /\ pc = "failed" => (listError # NoError \/ err = TypeError)
    /\ (\E s \in SubscriptionIds : response[s].kind = "error") => pc # "failed"

\* the iterator threw after it had yielded a subscription
C9_Witness ==
  /\ op = "consumption"
  /\ pc = "failed"
  /\ listError # NoError
  /\ err = listError
  /\ Len(subscriptions) >= 1
  /\ Len(subscriptions) < Len(upstream)

Contains(msg, part) ==
  \E i \in 1..(Len(msg) - Len(part) + 1) : SubSeq(msg, i, i + Len(part) - 1) = part

\* C10: when create() rejects or the SubscriptionClient constructor throws,
\* initializeAccount rejects, and the message of its error is
\* "Azure initializeAccount failed. Reason: " followed by the reason of the
\* failure.
C10_InitFailureWrapped ==
  /\ initCause # <<>> => initPc = "rejected"
  /\ initPc = "rejected" =>
       /\ initCause \in Reasons
       /\ initError = <<"Azure", "initializeAccount", "failed.", "Reason:">> \o initCause
       /\ Contains(initError, initCause)

\* the constructor threw after create() had resolved
C10_Witness ==
  /\ initPc = "rejected"
  /\ credentials = 1
  /\ subscriptionClient = 0
  /\ initCause = <<"invalid", "client", "secret">>


IssuedTimes(s) == Cardinality({ i \in DOMAIN issueLog : issueLog[i] = s })

\* C12: in a consumption call, under every strategy, the query of a
\* subscription is sent at most once, only for listed subscriptions, and a
\* query that was answered (rows or failure) is never in flight again; when
\* the call returns, the query of every listed subscription has been sent
\* exactly once and answered.
C12_ExactlyOnce ==
  op = "consumption" =>
    /\ \A s \in SubscriptionIds :
         /\ IssuedTimes(s) <= 1
         /\ IssuedTimes(s) = 1 <=> status[s] # "pending"
         /\ IssuedTimes(s) = 1 => InSeq(s, subscriptions)
         /\ response[s].kind # "none" => status[s] = "resolved"
    /\ pc = "done" =>
         \A i \in 1..Len(subscriptions) :
           /\ IssuedTimes(subscriptions[i]) = 1
           /\ status[subscriptions[i]] = "resolved"

\* three subscriptions in batches of two, the first query failed: a later
\* batch was started after the failure
C12_Witness ==
  /\ ConsumptionDone
  /\ ~chunkByDay
  /\ subscriptionChunks = 2
  /\ Len(subscriptions) = 3
  /\ response[subscriptions[1]].kind = "error"
  /\ IssuedTimes(subscriptions[1]) = 1

\* C13: with chunkByDay the consumption queries run one at a time whatever
\* the batch size is, set or unset: no batches are formed, the call never
\* waits on a batch, and at most one query is in flight.
C13_ChunkByDayFirst ==
  \A chunks \in 0..MaxChunks :
    (op = "consumption" /\ chunkByDay /\ subscriptionChunks = chunks) =>
      /\ chunkedRequests = <<>>
      /\ pc # "awaitBatch"
      /\ Cardinality(InFlight) <= 1
      /\ Len(issueLog) <= Len(completionOrder) + 1

\* chunkByDay with a batch size of two that would hold the whole listing: the
\* second query is in flight alone
C13_Witness ==
  /\ op = "consumption"
  /\ chunkByDay
  /\ subscriptionChunks = 2
  /\ Len(subscriptions) = 2
  /\ status[subscriptions[1]] = "resolved"
  /\ status[subscriptions[2]] = "inflight"


\* C14: whatever chunkByDay and the batch size are or become during the call
\* (they may change at any moment), the advisor call sends the
\* queries of all listed subscriptions in one step, in list order, before any
\* of them has resolved, and returns only when all of them have resolved.
C14_AdvisorFanOut ==
  \A chunkDays \in BOOLEAN, chunks \in 0..MaxChunks :
    (/\ op = "advisor"
     /\ pc \in {"awaitAll", "done"}
     /\ chunkByDay = chunkDays
     /\ subscriptionChunks = chunks) =>
      /\ issueLog = subscriptions
      /\ \A i \in 1..Len(subscriptions) : status[subscriptions[i]] # "pending"
      /\ pc = "done" => \A i \in 1..Len(subscriptions) :
                          status[subscriptions[i]] = "resolved"

\* chunkByDay and a batch size of one are in force and three advisor queries
\* are in flight together
C14_Witness ==
  /\ op = "advisor"
  /\ pc = "awaitAll"
  /\ chunkByDay
  /\ subscriptionChunks = 1
  /\ Len(subscriptions) = 3
  /\ Cardinality(InFlight) = 3


WarningsFor(s) ==
  { i \in DOMAIN log : log[i].level = "warn" /\ log[i].subscription = s }

\* C15: in a consumption and in an advisor call, a subscription whose query
\* failed has exactly one warning in the log, which names its id and the
\* reason of its failure; a subscription whose query succeeded or is not yet
\* answered has none; so when the call returns the warned ids are the ids of
\* the listed subscriptions whose failure was absorbed.
C15_OneWarningPerFailure ==
  op \in {"consumption", "advisor"} =>
    /\ \A s \in SubscriptionIds :
         IF response[s].kind = "error"
         THEN /\ Cardinality(WarningsFor(s)) = 1
              /\ \A i \in WarningsFor(s) : log[i].reason = response[s].reason
         ELSE WarningsFor(s) = {}
    /\ pc = "done" =>
         { s \in SubscriptionIds : WarningsFor(s) # {} }
           = { subscriptions[i] : i \in { j \in 1..Len(subscriptions) :
                                           value[subscriptions[j]] = <<>>
                                           /\ response[subscriptions[j]].kind = "error" } }

\* two queries failed for different reasons and a third one succeeded
C15_Witness ==
  /\ ConsumptionDone
  /\ \E s, t, u \in SubscriptionIds :
       /\ response[s].kind = "error"
       /\ response[t].kind = "error"
       /\ response[s].reason # response[t].reason
       /\ response[u].kind = "ok"
       /\ WarningsFor(u) = {}
  /\ Cardinality({ i \in DOMAIN log : log[i].level = "warn" }) = 2


\* C16: a consumption or advisor call that got past the missing-client check
\* has invoked the subscription listing exactly once; no query is sent before
\* that listing is complete, the queries sent follow it in order, and when
\* the call returns the subscriptions queried are exactly those the listing
\* of this call returned.
C16_FreshListing ==
  (op \in {"consumption", "advisor"} /\ pc # "idle" /\ err.name # "TypeError") =>
    /\ listCalls = 1
    /\ issueLog # <<>> => subscriptions = upstream
    /\ IsPrefix(issueLog, upstream)
    /\ pc = "done" => issueLog = upstream

\* an advisor call that queried the three subscriptions its listing returned
C16_Witness ==
  /\ op = "advisor"
  /\ pc = "done"
  /\ listCalls = 1
  /\ Len(upstream) = 3
  /\ issueLog = upstream


\* a step in which a pending initializeAccount call completes
InitializeAccountCompletes == initPc = "awaitCreate" /\ initPc' # "awaitCreate"

C18_UnusableAfterAnyFailure ==
  [][(initPc = "rejected" \/ credentials = 0)
       => ~(pc # "listing" /\ pc' = "listing")]_vars

\* C18: as long as no initializeAccount call has succeeded (none has
\* completed, or every one so far has failed) the facade has no client, and a
\* getSubscriptions, consumption or advisor call fails with a TypeError
\* before listing anything, sending anything or returning anything.
C18_UnusableWithoutClient ==
  subscriptionClient = 0 =>
    /\ pc \in {"idle", "failed"}
    /\ pc = "failed" =>
         /\ err.name = "TypeError"
         /\ ret = <<>>
         /\ issueLog = <<>>
         /\ listCalls = 0

\* initializeAccount failed and the consumption call made after it failed
C18_Witness ==
  /\ initPc = "rejected"
  /\ subscriptionClient = 0
  /\ op = "consumption"
  /\ pc = "failed"
  /\ err.name = "TypeError"


\* C19: what a consumption call returns is what each strategy computes from
\* the same list and the same outcomes of the queries: the values awaited one
\* by one and flattened, and, for every batch size set or unset, the batches
\* of values flattened.
C19_StrategyFreeResult ==
  ConsumptionDone =>
    /\ ret = Flat([i \in 1..Len(Requests) |-> value[Requests[i]]])
    /\ \A chunks \in 0..MaxChunks :
         LET chunked == ChunkRequests(chunks, Requests)
         IN  ret = RFlatten([k \in 1..Len(chunked) |-> PromiseAll(chunked[k])])

\* three subscriptions in batches of two, the first query failed, the rows
\* of the other two come from different batches
C19_Witness ==
  /\ ConsumptionDone
  /\ ~chunkByDay
  /\ subscriptionChunks = 2
  /\ Len(subscriptions) = 3
  /\ response[subscriptions[1]].kind = "error"
  /\ value[subscriptions[2]] # <<>>
  /\ value[subscriptions[3]] # <<>>
  /\ ret = value[subscriptions[2]] \o value[subscriptions[3]]

Awaiting == op = "consumption" /\ pc \in {"awaitSeq", "awaitBatch"}

\* C20: when the upstream answers every listing page and every query that
\* was sent, a consumption call that is listing ends (returns, or fails on
\* the listing), and one that waits on a request or on a batch returns,
\* under every strategy and batch size and whatever queries fail; what the
\* call waits on has always been sent.
C20_Terminates ==
  /\ [](Awaiting =>
          IF pc = "awaitSeq"
          THEN status[Requests[cursor]] # "pending"
          ELSE \A i \in 1..Len(chunkedRequests[cursor]) :
                 status[chunkedRequests[cursor][i]] # "pending")
  /\ (op = "consumption" /\ pc = "listing")
       ~> (op = "consumption" /\ pc \in {"done", "failed"})
  /\ Awaiting ~> ConsumptionDone

\* a call in batches of one has returned although its first two queries
\* failed
C20_Witness ==
  /\ ConsumptionDone
  /\ ~chunkByDay
  /\ subscriptionChunks = 1
  /\ Len(subscriptions) = 3
  /\ response[subscriptions[1]].kind = "error"
  /\ response[subscriptions[2]].kind = "error"

============================================================================
